---- MODULE Spec2Model ----
(***************************************************************************)
(* DukeUltrasound dataset builder                                          *)
(* (src/tensorflow_datasets/image/duke_ultrasound.py).                     *)
(*                                                                         *)
(* Two operations are modelled: _split_generators (the split resolver)     *)
(* and _generate_examples (the record builder, a Python generator that the *)
(* shard writer pulls one row at a time).  Paths are sequences of path     *)
(* components; CSV cells are strings; complex samples are pairs of         *)
(* integers.                                                               *)
(***************************************************************************)
EXTENDS Integers, Sequences, FiniteSets, TLC

VARIABLES
    custom_csv_splits,  \* self.custom_csv_splits: sequence of <<name, csv path>>
    csv_files,          \* file system: manifest path -> sequence of rows
    sg_state,           \* last _split_generators call: "idle" | "returned" | "raised"
    splits,             \* the list the last _split_generators call returned
    sg_calls,           \* number of _split_generators calls
    dl_calls,           \* number of dl_manager.download_and_extract calls
    gen_state,          \* generator: "none" | "created" | "suspended" | "done" | "error"
    gen_kwargs,         \* arguments of the current _generate_examples call
    row_idx,            \* rows the csv reader of the current call has handed out
    yielded,            \* (key, example) pairs the current call has yielded
    opened,             \* matrix file paths the current call has opened, in order
    gen_calls,          \* number of _generate_examples calls
    csv_live,           \* the current call's manifest handle is open and referenced
    csv_garbage,        \* manifest handles open but no longer referenced
    mat_garbage,        \* matrix handles open but no longer referenced
    iq_in,              \* numeric specification: the IQ array under test
    num_state,          \* numeric specification: "input" | "yield" | "raise"
    num_out             \* numeric specification: the example built from iq_in

vars == <<custom_csv_splits, csv_files, sg_state, splits, sg_calls, dl_calls,
          gen_state, gen_kwargs, row_idx, yielded, opened, gen_calls,
          csv_live, csv_garbage, mat_garbage, iq_in, num_state, num_out>>

(***************************************************************************)
(* Bounds of the model.                                                    *)
(***************************************************************************)
MaxRows == 2

MaxCalls == 2

MaxLen == 3

(***************************************************************************)
(* Module constants of the source.                                         *)
(***************************************************************************)
NumShards == 10

\* _DATA_URL: data source name -> URL (the last path component of the URL)
DATA_URL == [phantom_data |-> "vt150j912", mark_data |-> "4x51hj56d"]

\* _DEFAULT_SPLITS: split name -> manifest URL.  str(tfds.Split.TRAIN) = "train" &c.
DEFAULT_SPLITS ==
    [train |-> "tt44pn391", test |-> "zg64tm441", validation |-> "dj52w535x",
     MARK |-> "wd375w77v", A |-> "nc580n18d", B |-> "7h149q56p"]

\* Iteration order of _DEFAULT_SPLITS.items(): insertion order of the literal.
DefaultSplitOrder == <<"train", "test", "validation", "MARK", "A", "B">>

(***************************************************************************)
(* Helpers for sequences.                                                  *)
(***************************************************************************)
SeqsUpTo(S, n) == UNION {[1..k -> S] : k \in 0..n}

Range(s) == {s[i] : i \in DOMAIN s}

(***************************************************************************)
(* Split resolver: _split_generators.                                      *)
(***************************************************************************)
\* {**a, **b}: the keys of both, b's value where both have the key
DictMerge(a, b) ==
    [k \in (DOMAIN a) \cup (DOMAIN b) |-> IF k \in DOMAIN b THEN b[k] ELSE a[k]]

\* The download manager's local path of a downloaded and extracted URL.
LocalPath(url) == <<"downloads", "extracted", url>>

\* dl_manager.download_and_extract(urls): same keys, each URL resolved
DownloadAndExtract(urls) == [k \in DOMAIN urls |-> LocalPath(urls[k])]

\* tfds.core.SplitGenerator(name=, num_shards=, gen_kwargs=)
SplitGenerator(name, num_shards, kwargs) ==
    [name |-> name, num_shards |-> num_shards, gen_kwargs |-> kwargs]

\* Faulty variant of DefaultGenKwargs: every split reads the train manifest.
DefaultGenKwargsTrainOnly(dl_paths, name) ==
    [datapath |-> [mark_data |-> dl_paths["mark_data"],
                   phantom_data |-> dl_paths["phantom_data"]],
     csvpath |-> dl_paths["train"]]

\* gen_kwargs of a default split
DefaultGenKwargs(dl_paths, name) ==
    [datapath |-> [mark_data |-> dl_paths["mark_data"],
                   phantom_data |-> dl_paths["phantom_data"]],
     csvpath |-> dl_paths[name]]

\* The list comprehension over _DEFAULT_SPLITS.items()
DefaultSplitGenerators(dl_paths) ==
    [i \in 1..Len(DefaultSplitOrder) |->
        SplitGenerator(DefaultSplitOrder[i], NumShards,
                       DefaultGenKwargs(dl_paths, DefaultSplitOrder[i]))]

\* The subscript dl_paths['data'] of the custom loop raises KeyError when the
\* key is absent; the loop body runs only when custom_csv_splits is not empty.
CustomLoopRaises(dl_paths, custom) == Len(custom) > 0 /\ "data" \notin DOMAIN dl_paths

\* The descriptors the custom loop appends (when the subscript succeeds)
CustomSplitGenerators(dl_paths, custom) ==
    [i \in 1..Len(custom) |->
        SplitGenerator(custom[i][1], NumShards,
                       [datapath |-> dl_paths["data"], csvpath |-> custom[i][2]])]

\* The paths the download service returns to _split_generators
DlPaths == DownloadAndExtract(DictMerge(DEFAULT_SPLITS, DATA_URL))

\* custom_csv_splits values the builder is constructed with
CustomChoices ==
    { << >>,
      << <<"extra", <<"local", "extra.csv">> >> >>,
      << <<"extra", <<"local", "extra.csv">> >>, <<"held_out", <<"local", "held.csv">> >> >> }

\* _split_generators(dl_manager): one download call, the default descriptors,
\* then the custom loop; an exception leaves the caller without a list.
SplitGenerators ==
    /\ sg_calls < MaxCalls
    /\ sg_calls' = sg_calls + 1
    /\ dl_calls' = dl_calls + 1
    /\ IF CustomLoopRaises(DlPaths, custom_csv_splits)
       THEN /\ sg_state' = "raised"
            /\ splits' = << >>
       ELSE /\ sg_state' = "returned"
            /\ splits' = DefaultSplitGenerators(DlPaths)
                           \o CustomSplitGenerators(DlPaths, custom_csv_splits)
    /\ UNCHANGED <<custom_csv_splits, csv_files, gen_state, gen_kwargs, row_idx,
                   yielded, opened, gen_calls, csv_live, csv_garbage, mat_garbage,
                   iq_in, num_state, num_out>>

(***************************************************************************)
(* Numeric values.  A complex sample is [re, im] with integer parts.  A    *)
(* magnitude |z| = sqrt(re^2 + im^2) is represented by its square, which   *)
(* orders magnitudes as the magnitudes themselves are ordered.  A          *)
(* normalised magnitude a/m is represented by the reduced fraction of the  *)
(* squares, (a/m)^2 = num/den, and a decibel value 20*log10(a/m) by the    *)
(* fraction it is the logarithm of; IEEE division and logarithm give NaN   *)
(* for 0/0, +inf for x/0 and -inf for log10(0).                            *)
(***************************************************************************)
Complex(re, im) == [re |-> re, im |-> im]

\* Samples of the IQ arrays under test
ComplexVals == {Complex(0, 0), Complex(1, 1), Complex(0, 2), Complex(2, 0), Complex(0 - 3, 4)}

RECURSIVE Gcd(_, _)
Gcd(a, b) == IF b = 0 THEN a ELSE Gcd(b, a % b)

\* np.abs of one complex sample (squared)
Abs2(z) == z.re * z.re + z.im * z.im

\* np.reshape(m, -1) of a 2-D array stored as a sequence of rows: row-major
RECURSIVE Flatten(_)
Flatten(m) == IF m = << >> THEN << >> ELSE Head(m) \o Flatten(Tail(m))

\* np.abs(np.reshape(matfile['iq'], -1))
AbsArray(iq) == [i \in DOMAIN Flatten(iq) |-> Abs2(Flatten(iq)[i])]

\* Faulty variant of ArrayMax: the first element instead of the greatest.
ArrayMaxFirst(a) == a[1]

\* iq.max() of a non-empty array
ArrayMax(a) == CHOOSE x \in Range(a) : \A y \in Range(a) : y <= x

\* iq.max() raises ValueError on a zero-size array
MaxRaises(a) == Len(a) = 0

NaN == [kind |-> "nan", num |-> 0, den |-> 0]

PosInf == [kind |-> "posinf", num |-> 0, den |-> 0]

NegInf == [kind |-> "neginf", num |-> 0, den |-> 0]

Fin(n, d) == [kind |-> "fin", num |-> n \div Gcd(n, d), den |-> d \div Gcd(n, d)]

\* Faulty variant of Divide: a zero divisor is replaced by one (a guarded division).
DivideGuarded(a, m) == IF m = 0 THEN Fin(a, 1) ELSE Fin(a, m)

\* One element of iq / iq.max(): IEEE division of magnitude a by magnitude m
Divide(a, m) ==
    IF m = 0 THEN (IF a = 0 THEN NaN ELSE PosInf) ELSE Fin(a, m)

\* One element of 20 * np.log10(x), x a quotient of magnitudes
Log10Times20(x) ==
    IF x.kind = "fin" /\ x.num = 0 THEN NegInf ELSE x

\* Lines 136-138: magnitude, normalisation by the maximum, log compression
DasDB(iq) ==
    LET mag == AbsArray(iq)
        top == ArrayMax(mag)
    IN  [i \in DOMAIN mag |-> Log10Times20(Divide(mag[i], top))]

\* astype(np.float32) of an integer-valued float64: exact below 2^24, else
\* rounded to the nearest multiple of the unit in the last place, ties to even
RECURSIVE Ulp32(_, _)
Ulp32(n, u) == IF n < (2 ^ 24) * u THEN u ELSE Ulp32(n, 2 * u)

Float32(x) ==
    LET n == IF x < 0 THEN 0 - x ELSE x
        u == Ulp32(n, 1)
        q == n \div u
        r == n % u
        up == (2 * r > u) \/ (2 * r = u /\ q % 2 = 1)
        m == (IF up THEN q + 1 ELSE q) * u
    IN  IF x < 0 THEN 0 - m ELSE m

\* astype(np.float32) of a decibel value: rounding is monotone and keeps
\* 0, the infinities and NaN, which is all the representation records.
Float32Db(v) == v

RealPart(iq) == [i \in DOMAIN Flatten(iq) |-> Float32(Flatten(iq)[i].re)]

ImagPart(iq) == [i \in DOMAIN Flatten(iq) |-> Float32(Flatten(iq)[i].im)]

(***************************************************************************)
(* Manifest rows and the file system the builder reads.                    *)
(***************************************************************************)
MetaA ==
    [f0 |-> "5000000", v |-> "30", focus_cm |-> "4.0", axial_samples |-> "2",
     lateral_samples |-> "1", initial_radius |-> "0.01", final_radius |-> "0.12",
     initial_angle |-> "-0.6", final_angle |-> "0.6", probe |-> "c52v",
     scanner |-> "verasonics", timestamp_id |-> "1001", harm |-> "False"]

MetaB ==
    [f0 |-> "3600000", v |-> "45", focus_cm |-> "6.5", axial_samples |-> "1",
     lateral_samples |-> "2", initial_radius |-> "0.02", final_radius |-> "0.15",
     initial_angle |-> "-0.7", final_angle |-> "0.7", probe |-> "l74",
     scanner |-> "siemens", timestamp_id |-> "1002", harm |-> "True"]

\* One csv.DictReader row: every cell is a string keyed by its column header
Row(filename, target, meta) == [filename |-> filename, target |-> target] @@ meta

Rows ==
    { Row("a.mat", "mark", MetaA),
      Row("a.mat", "chicken", MetaB),
      Row("b.mat", "Mark", MetaB),
      Row("z.mat", "phantom", MetaA),
      Row("bad.mat", "phantom", MetaB) }

Manifests == SeqsUpTo(Rows, MaxRows)

MarkDir == LocalPath(DATA_URL["mark_data"])

PhantomDir == LocalPath(DATA_URL["phantom_data"])

MatOk(iq, dtce) == [status |-> "ok", iq |-> iq, dtce |-> dtce]

MatBad(status) == [status |-> status, iq |-> << >>, dtce |-> << >>]

\* The matrix files on disk: what opening and loading the path gives.
\* "missing": no such file; "corrupt": loadmat cannot parse it.
MatFileAt(path) ==
    CASE path = Append(MarkDir, "a.mat") ->
           MatOk(<< <<Complex(1, 1), Complex(0, 2)>> >>, << <<1, 2>> >>)
      [] path = Append(PhantomDir, "a.mat") ->
           MatOk(<< <<Complex(0 - 3, 4)>>, <<Complex(0, 0)>> >>, << <<16777217>>, <<5>> >>)
      [] path = Append(PhantomDir, "b.mat") ->
           MatOk(<< <<Complex(2, 0), Complex(0, 2), Complex(1, 1)>> >>, << <<7, 8, 9>> >>)
      [] path = Append(MarkDir, "b.mat") ->
           MatOk(<< <<Complex(1, 1)>> >>, << <<3>> >>)
      [] path = Append(PhantomDir, "z.mat") ->
           MatOk(<< <<Complex(0, 0), Complex(0, 0)>> >>, << <<0, 0>> >>)
      [] path = Append(PhantomDir, "e.mat") -> MatOk(<< >>, << >>)
      [] path = Append(PhantomDir, "bad.mat") -> MatBad("corrupt")
      [] OTHER -> MatBad("missing")

(***************************************************************************)
(* Record builder: _generate_examples.                                     *)
(***************************************************************************)
\* Faulty variant of DataKey: the target is compared without regard to case.
DataKeyAnyCase(row) ==
    IF row.target \in {"mark", "Mark", "MARK"} THEN "mark_data" ELSE "phantom_data"

\* Line 131
DataKey(row) == IF row.target = "mark" THEN "mark_data" ELSE "phantom_data"

\* os.path.join(directory, filename), filename a relative path
PathJoin(dir, filename) == Append(dir, filename)

\* Line 133
FilePath(datapath, row) == PathJoin(datapath[DataKey(row)], row.filename)

\* Faulty variant of ExampleKey: the acquisition timestamp as the key.
ExampleKeyTimestamp(row) == row.timestamp_id

\* Line 140: the key of the yielded pair
ExampleKey(row) == row.filename

\* Faulty variant of Example: height and width exchanged.
ExampleSwapped(row, matfile) ==
    [das |-> [dB |-> [i \in DOMAIN DasDB(matfile.iq) |-> Float32Db(DasDB(matfile.iq)[i])],
              real |-> RealPart(matfile.iq),
              imag |-> ImagPart(matfile.iq)],
     dtce |-> [i \in DOMAIN Flatten(matfile.dtce) |-> Float32(Flatten(matfile.dtce)[i])],
     f0_hz |-> row.f0,
     voltage |-> row.v,
     focus_cm |-> row.focus_cm,
     height |-> row.lateral_samples,
     width |-> row.axial_samples,
     initial_radius |-> row.initial_radius,
     final_radius |-> row.final_radius,
     initial_angle |-> row.initial_angle,
     final_angle |-> row.final_angle,
     probe |-> row.probe,
     scanner |-> row.scanner,
     target |-> row.target,
     timestamp_id |-> row.timestamp_id,
     harmonic |-> row.harm]

\* Lines 140-161: the dict of the yielded pair
Example(row, matfile) ==
    [das |-> [dB |-> [i \in DOMAIN DasDB(matfile.iq) |-> Float32Db(DasDB(matfile.iq)[i])],
              real |-> RealPart(matfile.iq),
              imag |-> ImagPart(matfile.iq)],
     dtce |-> [i \in DOMAIN Flatten(matfile.dtce) |-> Float32(Flatten(matfile.dtce)[i])],
     f0_hz |-> row.f0,
     voltage |-> row.v,
     focus_cm |-> row.focus_cm,
     height |-> row.axial_samples,
     width |-> row.lateral_samples,
     initial_radius |-> row.initial_radius,
     final_radius |-> row.final_radius,
     initial_angle |-> row.initial_angle,
     final_angle |-> row.final_angle,
     probe |-> row.probe,
     scanner |-> row.scanner,
     target |-> row.target,
     timestamp_id |-> row.timestamp_id,
     harmonic |-> row.harm]

\* loadmat raises: the file is absent or is not a matrix file
LoadRaises(matfile) == matfile.status # "ok"

\* The body of the loop raises for this row: at loadmat (line 134) or at
\* iq.max() of a zero-size array (line 137).  A zero maximum does not raise:
\* numpy divides and warns.
RowRaises(matfile) == LoadRaises(matfile) \/ MaxRaises(AbsArray(matfile.iq))

\* No example exists (before the first yield, or after an exception)
NoExample == [das |-> [dB |-> << >>, real |-> << >>, imag |-> << >>]]

\* Faulty variant of GenerateExamples: the reader is shared by all calls, so a new
\* call goes on from the row the previous one had reached.
GenerateExamplesSharedReader ==
    /\ gen_calls < MaxCalls
    /\ sg_state = "returned"
    /\ \E i \in DOMAIN splits : gen_kwargs' = splits[i].gen_kwargs
    /\ gen_calls' = gen_calls + 1
    /\ gen_state' = "created"
    /\ csv_live' = FALSE
    /\ csv_garbage' = csv_garbage + (IF csv_live THEN 1 ELSE 0)
    /\ UNCHANGED <<custom_csv_splits, csv_files, sg_state, splits, sg_calls, dl_calls,
                   row_idx, yielded, opened, mat_garbage, iq_in, num_state, num_out>>

\* _generate_examples(datapath, csvpath): calling a generator function runs
\* none of its body; every call has its own reader, starting at the first row.
\* A generator still suspended is dropped with its manifest handle unclosed.
GenerateExamples ==
    /\ gen_calls < MaxCalls
    /\ sg_state = "returned"
    /\ \E i \in DOMAIN splits : gen_kwargs' = splits[i].gen_kwargs
    /\ gen_calls' = gen_calls + 1
    /\ gen_state' = "created"
    /\ row_idx' = 0
    /\ yielded' = << >>
    /\ opened' = << >>
    /\ csv_live' = FALSE
    /\ csv_garbage' = csv_garbage + (IF csv_live THEN 1 ELSE 0)
    /\ UNCHANGED <<custom_csv_splits, csv_files, sg_state, splits, sg_calls, dl_calls,
                   mat_garbage, iq_in, num_state, num_out>>

\* Faulty variant of GenNext: a row whose matrix file cannot be used is skipped.
GenNextSkipBadRow ==
    /\ gen_state \in {"created", "suspended"}
    /\ LET manifest == csv_files[gen_kwargs.csvpath]
       IN  IF row_idx = Len(manifest)
           THEN /\ gen_state' = "done"
                /\ csv_live' = FALSE
                /\ csv_garbage' = csv_garbage + 1
                /\ UNCHANGED <<row_idx, yielded, opened, mat_garbage>>
           ELSE LET row == manifest[row_idx + 1]
                    filepath == FilePath(gen_kwargs.datapath, row)
                    matfile == MatFileAt(filepath)
                IN  /\ row_idx' = row_idx + 1
                    /\ opened' = Append(opened, filepath)
                    /\ mat_garbage' =
                         mat_garbage + (IF matfile.status = "missing" THEN 0 ELSE 1)
                    /\ gen_state' = "suspended"
                    /\ csv_live' = TRUE
                    /\ UNCHANGED csv_garbage
                    /\ yielded' = IF RowRaises(matfile)
                                  THEN yielded
                                  ELSE Append(yielded,
                                              <<ExampleKey(row), Example(row, matfile)>>)
    /\ UNCHANGED <<custom_csv_splits, csv_files, sg_state, splits, sg_calls, dl_calls,
                   gen_kwargs, gen_calls, iq_in, num_state, num_out>>

\* next() on the generator: runs the body to the next yield, to the end of
\* the manifest (StopIteration) or to an exception.  Neither GFile is closed
\* by the code (no with block, no close()): the matrix handle is unreferenced
\* once loadmat has returned, the manifest handle once the generator's frame
\* is gone; a path that names no file opens no handle.
GenNext ==
    /\ gen_state \in {"created", "suspended"}
    /\ LET manifest == csv_files[gen_kwargs.csvpath]
       IN  IF row_idx = Len(manifest)
           THEN /\ gen_state' = "done"
                /\ csv_live' = FALSE
                /\ csv_garbage' = csv_garbage + 1
                /\ UNCHANGED <<row_idx, yielded, opened, mat_garbage>>
           ELSE LET row == manifest[row_idx + 1]
                    filepath == FilePath(gen_kwargs.datapath, row)
                    matfile == MatFileAt(filepath)
                IN  /\ row_idx' = row_idx + 1
                    /\ opened' = Append(opened, filepath)
                    /\ mat_garbage' =
                         mat_garbage + (IF matfile.status = "missing" THEN 0 ELSE 1)
                    /\ IF RowRaises(matfile)
                       THEN /\ gen_state' = "error"
                            /\ csv_live' = FALSE
                            /\ csv_garbage' = csv_garbage + 1
                            /\ UNCHANGED yielded
                       ELSE /\ gen_state' = "suspended"
                            /\ csv_live' = TRUE
                            /\ UNCHANGED csv_garbage
                            /\ yielded' = Append(yielded,
                                                 <<ExampleKey(row), Example(row, matfile)>>)
    /\ UNCHANGED <<custom_csv_splits, csv_files, sg_state, splits, sg_calls, dl_calls,
                   gen_kwargs, gen_calls, iq_in, num_state, num_out>>

\* The interpreter finalises an unreferenced matrix GFile, closing its handle.
ReleaseMat ==
    /\ mat_garbage > 0
    /\ mat_garbage' = mat_garbage - 1
    /\ UNCHANGED <<custom_csv_splits, csv_files, sg_state, splits, sg_calls, dl_calls,
                   gen_state, gen_kwargs, row_idx, yielded, opened, gen_calls,
                   csv_live, csv_garbage, iq_in, num_state, num_out>>

\* The interpreter finalises an unreferenced manifest GFile, closing its handle.
ReleaseCsv ==
    /\ csv_garbage > 0
    /\ csv_garbage' = csv_garbage - 1
    /\ UNCHANGED <<custom_csv_splits, csv_files, sg_state, splits, sg_calls, dl_calls,
                   gen_state, gen_kwargs, row_idx, yielded, opened, gen_calls,
                   csv_live, mat_garbage, iq_in, num_state, num_out>>

(***************************************************************************)
(* The specification of the builder.                                       *)
(***************************************************************************)
CsvPaths ==
    {DlPaths[n] : n \in DOMAIN DEFAULT_SPLITS}
        \cup {<<"local", "extra.csv">>, <<"local", "held.csv">>}

\* The manifests on disk other than the train manifest
FixedManifest(path) ==
    CASE path = DlPaths["test"] -> << >>
      [] path = DlPaths["validation"] ->
           <<Row("b.mat", "Mark", MetaB), Row("gone.mat", "mark", MetaA)>>
      [] path = DlPaths["MARK"] -> <<Row("a.mat", "mark", MetaA)>>
      [] path = DlPaths["A"] -> <<Row("a.mat", "chicken", MetaB), Row("z.mat", "phantom", MetaA)>>
      [] path = DlPaths["B"] -> <<Row("b.mat", "Mark", MetaB), Row("e.mat", "phantom", MetaA)>>
      [] OTHER -> <<Row("b.mat", "Mark", MetaB)>>

Init ==
    /\ custom_csv_splits \in CustomChoices
    /\ \E m \in Manifests :
         csv_files = [p \in CsvPaths |-> IF p = DlPaths["train"] THEN m ELSE FixedManifest(p)]
    /\ sg_state = "idle"
    /\ splits = << >>
    /\ sg_calls = 0
    /\ dl_calls = 0
    /\ gen_state = "none"
    /\ gen_kwargs = DefaultGenKwargs(DlPaths, "train")
    /\ row_idx = 0
    /\ yielded = << >>
    /\ opened = << >>
    /\ gen_calls = 0
    /\ csv_live = FALSE
    /\ csv_garbage = 0
    /\ mat_garbage = 0
    /\ iq_in = << >>
    /\ num_state = "input"
    /\ num_out = NoExample

Next ==
    \/ SplitGenerators
    \/ GenerateExamples
    \/ GenNext
    \/ ReleaseMat
    \/ ReleaseCsv

Spec == Init /\ [][Next]_vars

(***************************************************************************)
(* The numeric specification: the loop body of _generate_examples applied  *)
(* to one row whose matrix file holds an IQ array drawn from a bounded set.*)
(***************************************************************************)
IqArrays == {<<s>> : s \in SeqsUpTo(ComplexVals, MaxLen)}

InitNum ==
    /\ iq_in \in IqArrays
    /\ num_state = "input"
    /\ num_out = NoExample
    /\ custom_csv_splits = << >>
    /\ csv_files = [p \in CsvPaths |-> FixedManifest(p)]
    /\ sg_state = "idle"
    /\ splits = << >>
    /\ sg_calls = 0
    /\ dl_calls = 0
    /\ gen_state = "none"
    /\ gen_kwargs = DefaultGenKwargs(DlPaths, "train")
    /\ row_idx = 0
    /\ yielded = << >>
    /\ opened = << >>
    /\ gen_calls = 0
    /\ csv_live = FALSE
    /\ csv_garbage = 0
    /\ mat_garbage = 0

\* Lines 134-161 for one row: the loaded arrays give an example or an exception
BuildFromIq ==
    /\ num_state = "input"
    /\ LET matfile == MatOk(iq_in, << <<1, 2>> >>)
           row == Row("a.mat", "mark", MetaA)
       IN  IF RowRaises(matfile)
           THEN /\ num_state' = "raise"
                /\ num_out' = NoExample
           ELSE /\ num_state' = "yield"
                /\ num_out' = Example(row, matfile)
    /\ UNCHANGED <<custom_csv_splits, csv_files, sg_state, splits, sg_calls, dl_calls,
                   gen_state, gen_kwargs, row_idx, yielded, opened, gen_calls,
                   csv_live, csv_garbage, mat_garbage, iq_in>>

NextNum == BuildFromIq

SpecNum == InitNum /\ [][NextNum]_vars

(***************************************************************************)
(* Vocabulary of the properties.                                           *)
(***************************************************************************)
\* The manifest the current _generate_examples call reads
CurrentManifest == csv_files[gen_kwargs.csvpath]

\* The directory a row's matrix file is looked up in
RowDir(row) ==
    IF row.target = "mark" THEN gen_kwargs.datapath.mark_data
                           ELSE gen_kwargs.datapath.phantom_data

\* The row's matrix file exists, parses and holds a non-empty IQ array
Loadable(row) ==
    LET m == MatFileAt(Append(RowDir(row), row.filename))
    IN  m.status = "ok" /\ Flatten(m.iq) # << >>

IsZeroDb(x) == x.kind = "fin" /\ x.num = x.den /\ x.num > 0

AtMostZeroDb(x) == x.kind = "neginf" \/ (x.kind = "fin" /\ x.num <= x.den)

(***************************************************************************)
(* C1: with custom_csv_splits not empty, _split_generators returns a       *)
(* descriptor for every custom name whose csvpath is the supplied path and *)
(* whose datapath holds the downloaded mark_data and phantom_data          *)
(* directories, after one download call per invocation.                    *)
(***************************************************************************)
CustomSplitRegistered ==
    (sg_state # "idle" /\ Len(custom_csv_splits) > 0) =>
        /\ sg_state = "returned"
        /\ dl_calls = sg_calls
        /\ \A i \in DOMAIN custom_csv_splits :
             \E j \in DOMAIN splits :
                /\ splits[j].name = custom_csv_splits[i][1]
                /\ splits[j].gen_kwargs.csvpath = custom_csv_splits[i][2]
                /\ splits[j].gen_kwargs.datapath =
                     [mark_data |-> MarkDir, phantom_data |-> PhantomDir]

(***************************************************************************)
(* C2: when every row of the manifest references a loadable matrix file,   *)
(* the call yields one pair per row in manifest order, the i-th key being  *)
(* the i-th row's filename; the sequence ends with the manifest, and every *)
(* call starts at the first row with nothing yielded.                      *)
(***************************************************************************)
OnePairPerRowInOrder ==
    /\ gen_state = "created" => (row_idx = 0 /\ yielded = << >>)
    /\ gen_state \in {"suspended", "done"} =>
         /\ row_idx <= Len(CurrentManifest)
         /\ Len(yielded) = row_idx
         /\ \A i \in 1..row_idx : yielded[i][1] = CurrentManifest[i].filename
    /\ gen_state = "done" => row_idx = Len(CurrentManifest)
    /\ (\A i \in DOMAIN CurrentManifest : Loadable(CurrentManifest[i])) => gen_state # "error"

SecondCallYieldedAll ==
    /\ gen_calls = 2
    /\ gen_state = "done"
    /\ Len(CurrentManifest) = 2
    /\ Len(yielded) = 2

(***************************************************************************)
(* C3: the i-th matrix file opened is the i-th row's filename joined to    *)
(* datapath['mark_data'] when the row's target is exactly 'mark', and to   *)
(* datapath['phantom_data'] for every other target.                        *)
(***************************************************************************)
MarkRowsFromMarkDirOnly ==
    /\ Len(opened) = row_idx
    /\ \A i \in DOMAIN opened :
         opened[i] = Append(IF CurrentManifest[i].target = "mark"
                            THEN gen_kwargs.datapath.mark_data
                            ELSE gen_kwargs.datapath.phantom_data,
                            CurrentManifest[i].filename)

OpenedMarkAndNearMark ==
    /\ Len(opened) = 2
    /\ CurrentManifest[1].target = "mark"
    /\ CurrentManifest[2].target = "Mark"
    /\ opened[1] = Append(MarkDir, CurrentManifest[1].filename)
    /\ opened[2] = Append(PhantomDir, CurrentManifest[2].filename)

(***************************************************************************)
(* C4: with no custom splits, _split_generators calls the download service *)
(* once and returns one descriptor per default split name, each with both  *)
(* resolved data directories and the resolved manifest path of its name.   *)
(***************************************************************************)
DefaultSplitsResolved ==
    (sg_state = "returned" /\ custom_csv_splits = << >>) =>
        /\ dl_calls = sg_calls
        /\ Len(splits) = 6
        /\ \A n \in {"train", "test", "validation", "MARK", "A", "B"} :
             Cardinality({i \in DOMAIN splits : splits[i].name = n}) = 1
        /\ \A i \in DOMAIN splits :
             /\ splits[i].gen_kwargs.datapath =
                  [mark_data |-> LocalPath("4x51hj56d"), phantom_data |-> LocalPath("vt150j912")]
             /\ splits[i].gen_kwargs.csvpath = LocalPath(DEFAULT_SPLITS[splits[i].name])

DefaultSplitsReturned ==
    /\ sg_state = "returned"
    /\ custom_csv_splits = << >>
    /\ dl_calls = 1
    /\ Len(splits) = 6

(***************************************************************************)
(* C5: when the matrix file of row k is missing or malformed, the call     *)
(* ends with an error at row k: the rows before k have been yielded in     *)
(* order, nothing is yielded for row k or later, and no row is passed over *)
(* or opened twice.                                                        *)
(***************************************************************************)
AbortsAtFirstBadRow ==
    /\ Len(opened) = row_idx
    /\ gen_state \in {"suspended", "done"} =>
         \A i \in 1..row_idx : Loadable(CurrentManifest[i])
    /\ gen_state = "error" =>
         /\ row_idx \in 1..Len(CurrentManifest)
         /\ ~Loadable(CurrentManifest[row_idx])
         /\ \A i \in 1..(row_idx - 1) : Loadable(CurrentManifest[i])
         /\ Len(yielded) = row_idx - 1
         /\ \A i \in 1..(row_idx - 1) : yielded[i][1] = CurrentManifest[i].filename

AbortedAtSecondRow ==
    /\ gen_state = "error"
    /\ row_idx = 2
    /\ Len(yielded) = 1
    /\ ~Loadable(CurrentManifest[2])

(***************************************************************************)
(* C6 as stated: for any manifest, no two yielded pairs carry the same key.*)
(***************************************************************************)
KeysUnique ==
    \A i, j \in DOMAIN yielded : i # j => yielded[i][1] # yielded[j][1]

(***************************************************************************)
(* C6 as amended: for any manifest in which no two rows share a filename,  *)
(* no two yielded pairs carry the same key.                                *)
(***************************************************************************)
KeysUniqueWhenFilenamesAre ==
    (\A i, j \in DOMAIN CurrentManifest :
        i # j => CurrentManifest[i].filename # CurrentManifest[j].filename)
    => KeysUnique

TwoDistinctKeysYielded ==
    /\ gen_state = "done"
    /\ Len(yielded) = 2
    /\ CurrentManifest[1].filename # CurrentManifest[2].filename
    /\ CurrentManifest[1].timestamp_id = CurrentManifest[2].timestamp_id

(***************************************************************************)
(* C7: once the iteration has ended, normally or by an error, no manifest  *)
(* or matrix file handle it opened is still open.                          *)
(***************************************************************************)
NoHandleOpenAfterEnd ==
    gen_state \in {"done", "error"} =>
        (~csv_live /\ csv_garbage = 0 /\ mat_garbage = 0)

(***************************************************************************)
(* C8: every scalar metadata field of a yielded example is the string of   *)
(* the corresponding manifest column of its row, whatever the matrix file  *)
(* holds.                                                                  *)
(***************************************************************************)
MetadataVerbatim ==
    \A i \in DOMAIN yielded :
        LET ex == yielded[i][2]
            row == CurrentManifest[i]
        IN  /\ ex.f0_hz = row.f0
            /\ ex.voltage = row.v
            /\ ex.focus_cm = row.focus_cm
            /\ ex.height = row.axial_samples
            /\ ex.width = row.lateral_samples
            /\ ex.initial_radius = row.initial_radius
            /\ ex.final_radius = row.final_radius
            /\ ex.initial_angle = row.initial_angle
            /\ ex.final_angle = row.final_angle
            /\ ex.probe = row.probe
            /\ ex.scanner = row.scanner
            /\ ex.target = row.target
            /\ ex.timestamp_id = row.timestamp_id
            /\ ex.harmonic = row.harm

TwoRowsDifferentMetadata ==
    /\ Len(yielded) = 2
    /\ yielded[1][2].height = "2"
    /\ yielded[2][2].height = "1"
    /\ yielded[1][2].harmonic = "False"
    /\ yielded[2][2].harmonic = "True"

(***************************************************************************)
(* C9: das.dB, das.real and das.imag have one length; when the IQ array    *)
(* has a non-zero element, every element of maximal magnitude maps to 0 dB,*)
(* no element maps above 0 dB, so the maximum of das.dB is 0.              *)
(***************************************************************************)
MaxDbIsZero ==
    num_state = "yield" =>
        LET flat == Flatten(iq_in)
            db == num_out.das.dB
        IN  /\ Len(db) = Len(num_out.das.real)
            /\ Len(db) = Len(num_out.das.imag)
            /\ Len(db) = Len(flat)
            /\ (\E i \in DOMAIN flat : flat[i] # Complex(0, 0)) =>
                 /\ \E i \in DOMAIN db : IsZeroDb(db[i])
                 /\ \A i \in DOMAIN db : AtMostZeroDb(db[i])
                 /\ \A i \in DOMAIN db :
                      (\A j \in DOMAIN flat : Abs2(flat[j]) <= Abs2(flat[i])) => IsZeroDb(db[i])

MixedMagnitudesBuilt ==
    /\ num_state = "yield"
    /\ Len(num_out.das.dB) = 3
    /\ num_out.das.dB[1] = NegInf
    /\ num_out.das.dB[2].kind = "fin" /\ num_out.das.dB[2].num < num_out.das.dB[2].den
    /\ IsZeroDb(num_out.das.dB[3])

(***************************************************************************)
(* C10: when the IQ array is not empty and every element has magnitude     *)
(* zero, the row still gives an example, and every element of its das.dB   *)
(* is the NaN of the unguarded 0/0, not a finite or substituted value.     *)
(***************************************************************************)
ZeroArrayGivesNaN ==
    (/\ num_state # "input"
     /\ Flatten(iq_in) # << >>
     /\ \A i \in DOMAIN Flatten(iq_in) : Abs2(Flatten(iq_in)[i]) = 0)
    => /\ num_state = "yield"
       /\ Len(num_out.das.dB) = Len(Flatten(iq_in))
       /\ \A i \in DOMAIN num_out.das.dB : num_out.das.dB[i] = NaN

ZeroArrayBuilt ==
    /\ num_state = "yield"
    /\ Flatten(iq_in) = <<Complex(0, 0), Complex(0, 0)>>
    /\ num_out.das.dB = <<NaN, NaN>>

====
